---- MODULE Spec2Model ----
(***************************************************************************)
(* kvm-vm-tune: one invocation of the tool: the `disk` subcommand with its *)
(* create -> virt-resize -> mv pipeline, and the `cpu` and `memory`        *)
(* subcommands with their maximum-then-current pair of virsh calls.        *)
(*                                                                         *)
(* src/main.go holds two revisions of the program:                         *)
(*   revision 1 (lines 1-293)   runs every external command itself;        *)
(*   revision 2 (lines 295-455) delegates to github.com/zinrai/            *)
(*                              libvirtwrap-go (pkg vm, virsh, disk).      *)
(* `version` selects the revision an invocation runs.  The library is not  *)
(* part of the repository; its calls are modelled from the contracts of    *)
(* spec.md (sections 4.1-4.3), and disk.ResizeAndExpandDisk,               *)
(* vm.SetCPUCount and vm.SetMemorySize are taken to run the commands of    *)
(* revision 1 (lines 209-281), from which they were extracted.             *)
(*                                                                         *)
(* External tools are the environment: each run of a tool either succeeds  *)
(* or fails, chosen nondeterministically, and acts on the file system `fs` *)
(* through the arguments the code passes to it.                            *)
(***************************************************************************)
EXTENDS Integers, Sequences, FiniteSets, TLC

VARIABLES
    version,      \* 1 or 2: the revision of main.go that runs
    command,      \* the subcommand: "disk", "cpu" or "memory"
    amount,       \* args[0] of cpu and memory: the count or the size
    vmConfig,     \* hypervisor: the persisted vCPU and memory configuration of the VM
    vmName,       \* the VM name argument
    imagePath,    \* --image (global flag variable, defaulted at line 134/415)
    device,       \* --device
    partition,    \* --partition
    size,         \* --size
    dryRun,       \* --dry-run is on the command line
    running,      \* hypervisor: the set of running VM names
    fs,           \* file system: path -> content
    pc,           \* position of the invocation
    calls,        \* log of the external commands / library calls executed
    response,     \* the line read from stdin at the prompt (characters)
    err,          \* the error resizeAndExpandDisk returned
    stdout,       \* lines printed to stdout, as format segments
    stderr,       \* lines printed to stderr, as format segments
    exitStatus    \* process exit status, meaningful when pc = "exit"

vars == <<version, command, amount, vmConfig, vmName, imagePath, device, partition,
          size, dryRun, running, fs, pc, calls, response, err, stdout, stderr,
          exitStatus>>

\* what no step of the disk subcommand changes
flags == <<version, command, amount, vmConfig, vmName, device, partition, size, dryRun,
           running>>

\* what no step of the cpu and memory subcommands changes
inputs == <<version, command, amount, vmName, imagePath, device, partition, size,
            dryRun, running, fs, response>>

-----------------------------------------------------------------------------
(* Bounds and the small input sets.                                        *)

MaxRespLen == 3          \* longest line (without its newline) typed at the prompt

DefaultPartition == 1    \* --partition default

VMs == {"vm1", "vm2"}
Images == {"/a.img", "/b.img"}
Sizes == {"", "40G"}
Devices == {"vda"}
Partitions == {DefaultPartition, DefaultPartition + 1}

\* hypervisor inventory: vm1 owns /a.img, vm2 has no disk; /b.img is foreign
Inventory == [v \in VMs |-> IF v = "vm1" THEN <<"/a.img">> ELSE <<>>]

ToolErrs == {"exit status 1", "exit status 2"}
ToolOutputs == {"permission denied", "no space left on device"}

RespChars == {"y", "Y", "e", "E", "s", "n", " "}

CountArgs == {"4", "+4", "x"}
MemorySizes == {"8G", "512M"}

\* the configuration before the invocation
InitialConfig == [vcpuMax |-> "1", vcpu |-> "1", maxmem |-> "1G", mem |-> "1G"]

-----------------------------------------------------------------------------
(* Strings.                                                                *)

\* strings.ToLower on one character
LowerChar(c) ==
    CASE c = "Y" -> "y"
      [] c = "E" -> "e"
      [] c = "S" -> "s"
      [] c = "N" -> "n"
      [] OTHER -> c

ToLower(s) == [i \in 1..Len(s) |-> LowerChar(s[i])]

IsSpace(c) == c \in {" ", "\n", "\t", "\r"}

RECURSIVE TrimLeft(_)
TrimLeft(s) ==
    IF s # <<>> /\ IsSpace(Head(s)) THEN TrimLeft(Tail(s)) ELSE s

RECURSIVE TrimRight(_)
TrimRight(s) ==
    IF s # <<>> /\ IsSpace(s[Len(s)]) THEN TrimRight(SubSeq(s, 1, Len(s) - 1)) ELSE s

\* strings.TrimSpace on a sequence of characters
TrimSpace(s) == TrimRight(TrimLeft(s))

\* strings.Join(args, sep)
RECURSIVE Join(_, _)
Join(args, sep) ==
    IF args = <<>> THEN ""
    ELSE IF Len(args) = 1 THEN args[1]
    ELSE args[1] \o sep \o Join(Tail(args), sep)

\* the text of a printed line: its segments concatenated
Flatten(segs) == Join(segs, "")

Contains(segs, x) == \E i \in 1..Len(segs) : segs[i] = x

\* all sequences over S of length at most n
SeqsUpTo(S, n) == UNION {[1..k -> S] : k \in 0..n}

\* what bufio.Reader.ReadString('\n') can return: a line with its newline,
\* or the rest of the input at end of file
Responses ==
    {l : l \in SeqsUpTo(RespChars, MaxRespLen)}
        \cup {Append(l, "\n") : l \in SeqsUpTo(RespChars, MaxRespLen)}

-----------------------------------------------------------------------------
(* File system and tools.                                                  *)

NewPath(p) == p \o ".new"

Paths == Images \cup {NewPath(p) : p \in Images}

Absent == "absent"
Blank == "blank"
Partial == "partial"
Original(p) == "original " \o p
Resized(c) == "resized " \o c

NoErr == [stage |-> "none", msg |-> <<>>]

Call(step, argv, ok, e, o) ==
    [step |-> step, argv |-> argv, ok |-> ok, err |-> e, out |-> o]

Steps(log) == [i \in 1..Len(log) |-> log[i].step]

PipelineSteps == {"create", "migrate", "replace", "delete"}

-----------------------------------------------------------------------------
(* Queries against the hypervisor.                                         *)

Perms(S) == {f \in [1..Cardinality(S) -> S] : \A i, j \in DOMAIN f : f[i] = f[j] => i = j}

\* the output of `virsh list --name --state-running`, cut at its newlines:
\* one name per line, then an empty line
RunningOutputs(R) == {p \o <<"", "">> : p \in Perms(R)}

RECURSIVE DropBlankHead(_)
DropBlankHead(ls) ==
    IF ls # <<>> /\ Head(ls) = "" THEN DropBlankHead(Tail(ls)) ELSE ls

RECURSIVE DropBlankTail(_)
DropBlankTail(ls) ==
    IF ls # <<>> /\ ls[Len(ls)] = "" THEN DropBlankTail(SubSeq(ls, 1, Len(ls) - 1)) ELSE ls

\* strings.Split(strings.TrimSpace(string(output)), "\n"): the names hold no
\* white space, so trimming removes the blank lines at both ends; splitting
\* the empty string yields one empty element
SplitTrimmed(ls) ==
    LET t == DropBlankTail(DropBlankHead(ls))
    IN  IF t = <<>> THEN <<"">> ELSE t

\* mutant: only the first line of the output is compared
isVMStopped_FirstLineOnly(vm, execOk, output) ==
    IF ~execOk THEN FALSE
    ELSE LET runningVMs == SplitTrimmed(output)
         IN  runningVMs[1] # vm

isVMStopped(vm, execOk, output) ==
    IF ~execOk THEN FALSE
    ELSE LET runningVMs == SplitTrimmed(output)
         IN  ~\E i \in 1..Len(runningVMs) : runningVMs[i] = vm

\* getVMDisks: the backing files of the <disk> elements, or an error
getVMDisks(vm, execOk) ==
    IF ~execOk \/ Len(Inventory[vm]) = 0
    THEN [ok |-> FALSE, disks |-> <<>>]
    ELSE [ok |-> TRUE, disks |-> Inventory[vm]]

\* virsh.GetVMDiskPaths of the library
GetVMDiskPaths(vm, execOk) ==
    IF ~execOk THEN [ok |-> FALSE, disks |-> <<>>]
    ELSE [ok |-> TRUE, disks |-> Inventory[vm]]

\* vm.IsRunning of the library: member of the running set, or a query error
IsRunning(vm, execOk) == [ok |-> execOk, isRunning |-> execOk /\ vm \in running]

\* vm.VerifyDiskBelongsToVM of the library
VerifyDiskBelongsToVM(vm, path, execOk) ==
    [ok |-> execOk,
     belongs |-> execOk /\ \E i \in 1..Len(Inventory[vm]) : Inventory[vm][i] = path]

-----------------------------------------------------------------------------
(* One invocation of `kvm-vm-tune disk <vm_name> [flags]`.                 *)

Init ==
    /\ version \in {1, 2}
    /\ vmName \in VMs
    /\ dryRun \in BOOLEAN
    /\ running \in SUBSET VMs
    /\ \/ /\ command = "disk"
          /\ amount = ""
          /\ imagePath \in {""} \cup Images
          /\ device \in Devices
          /\ partition \in Partitions
          /\ size \in Sizes
          /\ pc = "start"
       \/ /\ command \in {"cpu", "memory"}
          /\ amount \in IF command = "cpu" THEN CountArgs ELSE MemorySizes
          /\ imagePath = ""
          /\ device = "vda"
          /\ partition = DefaultPartition
          /\ size = ""
          /\ pc = "parse"
    /\ vmConfig = InitialConfig
    /\ fs = [p \in Paths |-> IF p \in Images THEN Original(p) ELSE Absent]
    /\ calls = <<>>
    /\ response = <<>>
    /\ err = NoErr
    /\ stdout = <<>>
    /\ stderr = <<>>
    /\ exitStatus = 0

Exit(code) == pc' = "exit" /\ exitStatus' = code

Selected(path) == <<"Selected disk: ", path, " (device: ", device, ")">>

DumpXml(vm, ok) ==
    IF version = 1
    THEN Call("dumpxml", <<"sudo", "virsh", "dumpxml", vm>>, ok, "", "")
    ELSE Call("dumpxml", <<"virsh.GetVMDiskPaths", vm>>, ok, "", "")

\* lines 124-137 / 405-418 with --image given
SelectGivenImage ==
    /\ pc = "start"
    /\ imagePath # ""
    /\ stdout' = Append(stdout, Selected(imagePath))
    /\ pc' = "checkRunning"
    /\ UNCHANGED <<flags, imagePath, fs, calls, response, err, stderr, exitStatus>>

\* lines 124-129 / 405-410: the disk inventory query fails
SelectQueryFails ==
    /\ pc = "start"
    /\ imagePath = ""
    /\ \E execOk \in BOOLEAN :
         LET r == IF version = 1 THEN getVMDisks(vmName, execOk)
                                 ELSE GetVMDiskPaths(vmName, execOk)
         IN  /\ ~r.ok
             /\ calls' = Append(calls, DumpXml(vmName, execOk))
    /\ stderr' = Append(stderr, <<"Failed to get disk information for VM '", vmName, "': ">>)
    /\ Exit(1)
    /\ UNCHANGED <<flags, imagePath, fs, response, err, stdout>>

\* lines 130-133 / 411-414: the query returned no disk
SelectNoDisks ==
    /\ pc = "start"
    /\ imagePath = ""
    /\ LET r == IF version = 1 THEN getVMDisks(vmName, TRUE)
                               ELSE GetVMDiskPaths(vmName, TRUE)
       IN  /\ r.ok
           /\ Len(r.disks) = 0
    /\ calls' = Append(calls, DumpXml(vmName, TRUE))
    /\ stderr' = Append(stderr, <<"No disks found for VM '", vmName, "'">>)
    /\ Exit(1)
    /\ UNCHANGED <<flags, imagePath, fs, response, err, stdout>>

\* lines 124-137 / 405-418: default to the VM's first disk
SelectFirstDisk ==
    /\ pc = "start"
    /\ imagePath = ""
    /\ LET r == IF version = 1 THEN getVMDisks(vmName, TRUE)
                               ELSE GetVMDiskPaths(vmName, TRUE)
       IN  /\ r.ok
           /\ Len(r.disks) # 0
           /\ imagePath' = r.disks[1]
           /\ stdout' = Append(stdout, Selected(r.disks[1]))
    /\ calls' = Append(calls, DumpXml(vmName, TRUE))
    /\ pc' = "checkRunning"
    /\ UNCHANGED <<flags, fs, response, err, stderr, exitStatus>>

RunningMsg == <<"VM '", vmName, "' is currently running. Please stop the VM before making changes.">>

ListRunning(ok) ==
    Call("listRunning", <<"sudo", "virsh", "list", "--name", "--state-running">>, ok, "", "")

\* revision 1, lines 139-142 with isVMStopped (192-207)
CheckStoppedV1 ==
    /\ pc = "checkRunning"
    /\ version = 1
    /\ \E execOk \in BOOLEAN : \E output \in RunningOutputs(running) :
         /\ calls' = Append(calls, ListRunning(execOk))
         /\ IF isVMStopped(vmName, execOk, output)
            THEN /\ pc' = "checkSize"
                 /\ UNCHANGED <<stdout, stderr, exitStatus>>
            ELSE /\ stdout' = IF execOk THEN stdout
                              ELSE Append(stdout, <<"Failed to get list of running VMs: ">>)
                 /\ stderr' = Append(stderr, RunningMsg)
                 /\ Exit(1)
    /\ UNCHANGED <<flags, imagePath, fs, response, err>>

\* revision 2, lines 420-428
CheckStoppedV2 ==
    /\ pc = "checkRunning"
    /\ version = 2
    /\ \E execOk \in BOOLEAN :
         LET r == IsRunning(vmName, execOk)
         IN  /\ calls' = Append(calls, Call("listRunning", <<"vm.IsRunning", vmName>>, execOk, "", ""))
             /\ IF ~r.ok
                THEN /\ stderr' = Append(stderr, <<"Failed to check VM status: ">>)
                     /\ Exit(1)
                ELSE IF r.isRunning
                THEN /\ stderr' = Append(stderr, RunningMsg)
                     /\ Exit(1)
                ELSE /\ pc' = "checkSize"
                     /\ UNCHANGED <<stderr, exitStatus>>
    /\ UNCHANGED <<flags, imagePath, fs, response, err, stdout>>

\* lines 144-147 / 430-433
CheckSize ==
    /\ pc = "checkSize"
    /\ IF size = ""
       THEN /\ stderr' = Append(stderr, <<"Please specify the new size using the --size option">>)
            /\ Exit(1)
       ELSE /\ pc' = "checkDryRun"
            /\ UNCHANGED <<stderr, exitStatus>>
    /\ UNCHANGED <<flags, imagePath, fs, calls, response, err, stdout>>

\* printResizeCommand, lines 287-293
printResizeCommand(path, dev, part, newSize) ==
    LET newImagePath == NewPath(path)
    IN  << <<"Command: sudo qemu-img create -f qcow2 -o preallocation=metadata ",
              newImagePath, " ", newSize>>,
           <<"Command: sudo virt-resize --expand /dev/", dev, ToString(part), " ",
              path, " ", newImagePath>>,
           <<"Command: sudo mv ", newImagePath, " ", path>> >>

\* lines 149-152 / 435-438 with --dry-run
DryRun ==
    /\ pc = "checkDryRun"
    /\ dryRun
    /\ stdout' = IF version = 1
                 THEN stdout \o printResizeCommand(imagePath, device, partition, size)
                 ELSE Append(stdout, <<"Would resize disk ", imagePath, " to ", size,
                                       " for VM '", vmName, "'">>)
    /\ Exit(0)
    /\ UNCHANGED <<flags, imagePath, fs, calls, response, err, stderr>>

\* line 161: the normalised response is an affirmative one
Affirmative(resp) ==
    LET r == ToLower(TrimSpace(resp))
    IN  r = <<"y">> \/ r = <<"y", "e", "s">>

\* revision 1, lines 154-164: the confirmation prompt
Prompt ==
    /\ pc = "checkDryRun"
    /\ ~dryRun
    /\ version = 1
    /\ \E resp \in Responses :
         /\ response' = resp
         /\ IF Affirmative(resp)
            THEN /\ stdout' = stdout \o
                        << <<"WARNING: This operation will modify the disk image.">>,
                           <<"Do you want to continue? (y/N): ">> >>
                 /\ pc' = "create"
                 /\ UNCHANGED exitStatus
            ELSE /\ stdout' = stdout \o
                        << <<"WARNING: This operation will modify the disk image.">>,
                           <<"Do you want to continue? (y/N): ">>,
                           <<"Operation cancelled.">> >>
                 /\ Exit(0)
    /\ UNCHANGED <<flags, imagePath, fs, calls, err, stderr>>

\* revision 2, lines 440-448: the disk must belong to the VM
VerifyOwnership ==
    /\ pc = "checkDryRun"
    /\ ~dryRun
    /\ version = 2
    /\ \E execOk \in BOOLEAN :
         LET r == VerifyDiskBelongsToVM(vmName, imagePath, execOk)
         IN  /\ calls' = Append(calls,
                    Call("verifyOwnership", <<"vm.VerifyDiskBelongsToVM", vmName, imagePath>>,
                         execOk, "", ""))
             /\ IF ~r.ok
                THEN /\ stderr' = Append(stderr, <<"Failed to verify disk ownership: ">>)
                     /\ Exit(1)
                ELSE IF ~r.belongs
                THEN /\ stderr' = Append(stderr,
                            <<"The specified disk does not belong to VM '", vmName, "'">>)
                     /\ Exit(1)
                ELSE /\ pc' = "create"
                     /\ UNCHANGED <<stderr, exitStatus>>
    /\ UNCHANGED <<flags, imagePath, fs, response, err, stdout>>

-----------------------------------------------------------------------------
(* The external tools of the pipeline, acting on the file system.          *)

\* qemu-img create <path> <size>: a new, empty image at path
QemuImgCreate(f, path) == [f EXCEPT ![path] = Blank]

\* virt-resize <in> <out>: the expanded copy of in, written into out
VirtResize(f, in, out) == [f EXCEPT ![out] = Resized(f[in])]

\* a failed virt-resize leaves out as it was, or partly written
VirtResizeFailed(f, out) == {f, [f EXCEPT ![out] = Partial]}

\* mv <src> <dst>: rename(2)
Mv(f, src, dst) == [f EXCEPT ![dst] = f[src], ![src] = Absent]

\* rm <path>
Rm(f, path) == [f EXCEPT ![path] = Absent]

-----------------------------------------------------------------------------
(* resizeAndExpandDisk, lines 209-251.                                     *)

\* mutant: mv with its two paths exchanged
mvArgv_Swapped(path) == <<"sudo", "mv", path, NewPath(path)>>

\* mutant: rm aimed at the original image
rmArgv_Original(path) == <<"sudo", "rm", path>>

\* mutant: the tool output left out of the create error
createError_NoOutput(e, o) ==
    [stage |-> "create", msg |-> <<"failed to create new image: ", e>>]

\* mutant: the virt-resize error printed again in place of the rm error
resizeError_SameErr(e, o, rmOk, rmErr, rmOutput) ==
    [stage |-> "resize",
     msg |-> IF rmOk
             THEN <<"virt-resize failed: ", e, ", output: ", o, ". New image was removed.">>
             ELSE <<"virt-resize failed: ", e, ", output: ", o,
                    ". Additionally, failed to remove new image: ", e,
                    ", output: ", rmOutput>>]

\* mutant: the rm result is not looked at
replaceError_AlwaysRemoved(e, rmOk, rmErr, rmOutput) ==
    [stage |-> "replace",
     msg |-> <<"failed to replace original image: ", e, ". New image was removed.">>]

createArgv(path, newSize) ==
    <<"sudo", "qemu-img", "create", "-f", "qcow2", "-o", "preallocation=metadata",
      NewPath(path), newSize>>

resizeArgv(path, dev, part) ==
    <<"sudo", "virt-resize", "--expand", "/dev/" \o dev \o ToString(part),
      path, NewPath(path)>>

mvArgv(path) == <<"sudo", "mv", NewPath(path), path>>

rmArgv(path) == <<"sudo", "rm", NewPath(path)>>

Executing(argv) == <<"Executing command: ", Join(argv, " ")>>

\* the most recent call of a step
LastCall(step) ==
    LET idx == {i \in 1..Len(calls) : calls[i].step = step}
    IN  calls[CHOOSE i \in idx : \A j \in idx : j <= i]

createError(e, o) ==
    [stage |-> "create", msg |-> <<"failed to create new image: ", e, ", output: ", o>>]

resizeError(e, o, rmOk, rmErr, rmOutput) ==
    [stage |-> "resize",
     msg |-> IF rmOk
             THEN <<"virt-resize failed: ", e, ", output: ", o, ". New image was removed.">>
             ELSE <<"virt-resize failed: ", e, ", output: ", o,
                    ". Additionally, failed to remove new image: ", rmErr,
                    ", output: ", rmOutput>>]

replaceError(e, rmOk, rmErr, rmOutput) ==
    [stage |-> "replace",
     msg |-> IF rmOk
             THEN <<"failed to replace original image: ", e, ". New image was removed.">>
             ELSE <<"failed to replace original image: ", e,
                    ". Additionally, failed to remove new image: ", rmErr,
                    ", output: ", rmOutput>>]

\* mutant: a failed create is tried again
Create_Retry ==
    /\ pc = "create"
    /\ LET argv == <<"sudo", "qemu-img", "create", "-f", "qcow2", "-o",
                     "preallocation=metadata", NewPath(imagePath), size>>
       IN  /\ stdout' = stdout \o << <<"Creating new image...">> >>
           /\ \/ /\ calls' = Append(calls, Call("create", argv, TRUE, "", ""))
                 /\ fs' = [fs EXCEPT ![argv[8]] = Blank]
                 /\ pc' = "migrate"
                 /\ UNCHANGED err
              \/ \E e \in ToolErrs, o \in ToolOutputs :
                 /\ calls' = Append(calls, Call("create", argv, FALSE, e, o))
                 /\ err' = [stage |-> "create",
                            msg |-> <<"failed to create new image: ", e, ", output: ", o>>]
                 /\ pc' = IF Len(calls) < 4 THEN "create" ELSE "returned"
                 /\ UNCHANGED fs
    /\ UNCHANGED <<flags, imagePath, response, stderr, exitStatus>>

\* lines 210-218
Create ==
    /\ pc = "create"
    /\ LET argv == createArgv(imagePath, size)
       IN  /\ stdout' = stdout \o << <<"Creating new image...">>, Executing(argv) >>
           /\ \/ /\ calls' = Append(calls, Call("create", argv, TRUE, "", ""))
                 /\ fs' = QemuImgCreate(fs, argv[8])
                 /\ pc' = "migrate"
                 /\ UNCHANGED err
              \/ \E e \in ToolErrs, o \in ToolOutputs :
                 /\ calls' = Append(calls, Call("create", argv, FALSE, e, o))
                 /\ err' = createError(e, o)
                 /\ pc' = "returned"
                 /\ UNCHANGED fs
    /\ UNCHANGED <<flags, imagePath, response, stderr, exitStatus>>

\* mutant: the virt-resize error is not checked
Migrate_IgnoreFailure ==
    /\ pc = "migrate"
    /\ LET argv == <<"sudo", "virt-resize", "--expand",
                     "/dev/" \o device \o ToString(partition), imagePath, NewPath(imagePath)>>
       IN  \/ /\ calls' = Append(calls, Call("migrate", argv, TRUE, "", "resized"))
              /\ fs' = [fs EXCEPT ![argv[6]] = Resized(fs[argv[5]])]
              /\ stdout' = stdout \o << <<"Resizing disk...">>,
                                        <<"virt-resize output:\n", "resized">> >>
              /\ pc' = "replace"
           \/ \E e \in ToolErrs, o \in ToolOutputs :
              /\ calls' = Append(calls, Call("migrate", argv, FALSE, e, o))
              /\ fs' \in {fs, [fs EXCEPT ![argv[6]] = Partial]}
              /\ stdout' = stdout \o << <<"Resizing disk...">>,
                                        <<"virt-resize output:\n", o>> >>
              /\ pc' = "replace"
    /\ UNCHANGED <<flags, imagePath, response, err, stderr, exitStatus>>

\* lines 220-224 and 234
Migrate ==
    /\ pc = "migrate"
    /\ LET argv == resizeArgv(imagePath, device, partition)
       IN  \/ /\ calls' = Append(calls, Call("migrate", argv, TRUE, "", "resized"))
              /\ fs' = VirtResize(fs, argv[5], argv[6])
              /\ stdout' = stdout \o << <<"Resizing disk...">>, Executing(argv),
                                        <<"virt-resize output:\n", "resized">> >>
              /\ pc' = "replace"
           \/ \E e \in ToolErrs, o \in ToolOutputs :
              /\ calls' = Append(calls, Call("migrate", argv, FALSE, e, o))
              /\ fs' \in VirtResizeFailed(fs, argv[6])
              /\ stdout' = stdout \o << <<"Resizing disk...">>, Executing(argv) >>
              /\ pc' = "rollbackMigrate"
    /\ UNCHANGED <<flags, imagePath, response, err, stderr, exitStatus>>

\* mutant: the result of rm is not checked
RollbackMigrate_IgnoreRmErr ==
    /\ pc = "rollbackMigrate"
    /\ LET argv == <<"sudo", "rm", NewPath(imagePath)>>
           failed == calls[Len(calls)]
           removed == [stage |-> "resize",
                       msg |-> <<"virt-resize failed: ", failed.err, ", output: ",
                                 failed.out, ". New image was removed.">>]
       IN  \/ /\ calls' = Append(calls, Call("delete", argv, TRUE, "", ""))
              /\ fs' = [fs EXCEPT ![argv[3]] = Absent]
              /\ err' = removed
           \/ \E e \in ToolErrs, o \in ToolOutputs :
              /\ calls' = Append(calls, Call("delete", argv, FALSE, e, o))
              /\ UNCHANGED fs
              /\ err' = removed
    /\ pc' = "returned"
    /\ UNCHANGED <<flags, imagePath, response, stdout, stderr, exitStatus>>

\* lines 225-231: remove the new image after a failed virt-resize
RollbackMigrate ==
    /\ pc = "rollbackMigrate"
    /\ LET argv == rmArgv(imagePath)
           failed == LastCall("migrate")
       IN  \/ /\ calls' = Append(calls, Call("delete", argv, TRUE, "", ""))
              /\ fs' = Rm(fs, argv[3])
              /\ err' = resizeError(failed.err, failed.out, TRUE, "", "")
           \/ \E e \in ToolErrs, o \in ToolOutputs :
              /\ calls' = Append(calls, Call("delete", argv, FALSE, e, o))
              /\ UNCHANGED fs
              /\ err' = resizeError(failed.err, failed.out, FALSE, e, o)
    /\ pc' = "returned"
    /\ UNCHANGED <<flags, imagePath, response, stdout, stderr, exitStatus>>

\* mutant: the new image is removed after a successful mv as well
Replace_AlwaysCleanup ==
    /\ pc = "replace"
    /\ LET argv == <<"sudo", "mv", NewPath(imagePath), imagePath>>
       IN  \/ /\ calls' = Append(calls, Call("replace", argv, TRUE, "", ""))
              /\ fs' = [fs EXCEPT ![argv[4]] = fs[argv[3]], ![argv[3]] = Absent]
           \/ \E e \in ToolErrs, o \in ToolOutputs :
              /\ calls' = Append(calls, Call("replace", argv, FALSE, e, o))
              /\ UNCHANGED fs
    /\ stdout' = stdout \o << <<"Replacing original image with resized image...">> >>
    /\ pc' = "rollbackReplace"
    /\ UNCHANGED <<flags, imagePath, response, err, stderr, exitStatus>>

\* lines 236-239 and 249-250
Replace ==
    /\ pc = "replace"
    /\ LET argv == mvArgv(imagePath)
       IN  \/ /\ calls' = Append(calls, Call("replace", argv, TRUE, "", ""))
              /\ fs' = Mv(fs, argv[3], argv[4])
              /\ stdout' = stdout \o
                     << <<"Replacing original image with resized image...">>,
                        Executing(argv), <<"Disk expansion completed.">> >>
              /\ pc' = "returned"
           \/ \E e \in ToolErrs, o \in ToolOutputs :
              /\ calls' = Append(calls, Call("replace", argv, FALSE, e, o))
              /\ UNCHANGED fs
              /\ stdout' = stdout \o
                     << <<"Replacing original image with resized image...">>,
                        Executing(argv) >>
              /\ pc' = "rollbackReplace"
    /\ UNCHANGED <<flags, imagePath, response, err, stderr, exitStatus>>

\* lines 240-246: remove the new image after a failed mv
RollbackReplace ==
    /\ pc = "rollbackReplace"
    /\ LET argv == rmArgv(imagePath)
           failed == LastCall("replace")
       IN  \/ /\ calls' = Append(calls, Call("delete", argv, TRUE, "", ""))
              /\ fs' = Rm(fs, argv[3])
              /\ err' = replaceError(failed.err, TRUE, "", "")
           \/ \E e \in ToolErrs, o \in ToolOutputs :
              /\ calls' = Append(calls, Call("delete", argv, FALSE, e, o))
              /\ UNCHANGED fs
              /\ err' = replaceError(failed.err, FALSE, e, o)
    /\ pc' = "returned"
    /\ UNCHANGED <<flags, imagePath, response, stdout, stderr, exitStatus>>

\* mutant: the error is printed but the process exits with status 0
Report_ExitZero ==
    /\ pc = "returned"
    /\ IF err # NoErr
       THEN /\ stderr' = Append(stderr, <<"Failed to resize and expand disk: ">> \o err.msg)
            /\ UNCHANGED stdout
       ELSE /\ stdout' = Append(stdout, <<"Disk expansion completed successfully.">>)
            /\ UNCHANGED stderr
    /\ Exit(0)
    /\ UNCHANGED <<flags, imagePath, fs, calls, response, err>>

\* lines 166-170 / 450-454: report what the pipeline returned
Report ==
    /\ pc = "returned"
    /\ IF err # NoErr
       THEN /\ stderr' = Append(stderr, <<"Failed to resize and expand disk: ">> \o err.msg)
            /\ Exit(1)
            /\ UNCHANGED stdout
       ELSE /\ stdout' = Append(stdout,
                   IF version = 1
                   THEN <<"Disk expansion completed successfully.">>
                   ELSE <<"Disk expansion completed successfully for VM '", vmName, "'.">>)
            /\ Exit(0)
            /\ UNCHANGED stderr
    /\ UNCHANGED <<flags, imagePath, fs, calls, response, err>>

-----------------------------------------------------------------------------
(* The cpu and memory subcommands.                                         *)

\* init, lines 69-73 / 346-350: every flag is registered on diskCmd alone
FlagDefined(cmd, flag) == cmd = "disk"

\* main, lines 76-81 / 353-358: cobra refuses a flag the subcommand does not
\* define; Execute returns the error and no Run function is called
UnknownFlag ==
    /\ pc = "parse"
    /\ dryRun
    /\ ~FlagDefined(command, "dry-run")
    /\ stdout' = Append(stdout, <<"unknown flag: --dry-run">>)
    /\ stderr' = Append(stderr, <<"Error: unknown flag: --dry-run">>)
    /\ Exit(1)
    /\ UNCHANGED <<inputs, vmConfig, calls, err>>

\* rootCmd.Execute runs the subcommand's Run function
Dispatch ==
    /\ pc = "parse"
    /\ dryRun => FlagDefined(command, "dry-run")
    /\ pc' = IF command = "cpu" THEN "cpuStart" ELSE "memoryStart"
    /\ UNCHANGED <<inputs, vmConfig, calls, err, stdout, stderr, exitStatus>>

\* strconv.Atoi on the count arguments of the model
Atoi(s) ==
    CASE s = "4" -> [ok |-> TRUE, n |-> 4]
      [] s = "+4" -> [ok |-> TRUE, n |-> 4]
      [] OTHER -> [ok |-> FALSE, n |-> 0]

\* printCommand, lines 283-285
printCommand(name, args) == <<"Command: sudo ", name, " ", Join(args, " ")>>

setvcpusMaxArgv(vm, cpuCount) ==
    <<"sudo", "virsh", "setvcpus", vm, ToString(cpuCount), "--config", "--maximum">>

setvcpusArgv(vm, cpuCount) ==
    <<"sudo", "virsh", "setvcpus", vm, ToString(cpuCount), "--config">>

setmaxmemArgv(vm, memorySize) == <<"sudo", "virsh", "setmaxmem", vm, memorySize, "--config">>

setmemArgv(vm, memorySize) == <<"sudo", "virsh", "setmem", vm, memorySize, "--config">>

\* what the dry-run branch of each subcommand prints
\* (lines 91-93 / 371, 108-110 / 389, 150 / 436)
DryRunLines(ver, cmd, vm, arg, path, dev, part, newSize) ==
    IF ver = 1
    THEN CASE cmd = "cpu" ->
                << printCommand("virsh", <<"setvcpus", vm, ToString(Atoi(arg).n),
                                           "--config", "--maximum">>),
                   printCommand("virsh", <<"setvcpus", vm, ToString(Atoi(arg).n),
                                           "--config">>) >>
           [] cmd = "memory" ->
                << printCommand("virsh", <<"setmaxmem", vm, arg, "--config">>),
                   printCommand("virsh", <<"setmem", vm, arg, "--config">>) >>
           [] OTHER -> printResizeCommand(path, dev, part, newSize)
    ELSE CASE cmd = "cpu" ->
                << <<"Would set CPU count to ", ToString(Atoi(arg).n), " for VM '", vm, "'">> >>
           [] cmd = "memory" ->
                << <<"Would set memory size to ", arg, " for VM '", vm, "'">> >>
           [] OTHER ->
                << <<"Would resize disk ", path, " to ", newSize, " for VM '", vm, "'">> >>

\* lines 84-88 / 361-365
CpuInvalidCount ==
    /\ pc = "cpuStart"
    /\ ~Atoi(amount).ok
    /\ stderr' = Append(stderr, <<"Invalid CPU count: ">>)
    /\ Exit(1)
    /\ UNCHANGED <<inputs, vmConfig, calls, err, stdout>>

\* lines 89-97 / 366-375
CpuBegin ==
    /\ pc = "cpuStart"
    /\ Atoi(amount).ok
    /\ IF dryRun
       THEN /\ stdout' = stdout \o DryRunLines(version, "cpu", vmName, amount,
                                               imagePath, device, partition, size)
            /\ Exit(0)
       ELSE /\ pc' = "cpuMax"
            /\ UNCHANGED <<stdout, exitStatus>>
    /\ UNCHANGED <<inputs, vmConfig, calls, err, stderr>>

\* mutant: the result of the maximum call is not checked
SetMaxCPU_IgnoreFailure ==
    /\ pc = "cpuMax"
    /\ LET argv == setvcpusMaxArgv(vmName, Atoi(amount).n)
       IN  \/ /\ calls' = Append(calls, Call("cpuMax", argv, TRUE, "", ""))
              /\ vmConfig' = [vmConfig EXCEPT !.vcpuMax = argv[5]]
           \/ \E e \in ToolErrs, o \in ToolOutputs :
              /\ calls' = Append(calls, Call("cpuMax", argv, FALSE, e, o))
              /\ UNCHANGED vmConfig
    /\ pc' = "cpuCurrent"
    /\ UNCHANGED <<inputs, err, stdout, stderr, exitStatus>>

\* changeCPUCount, lines 254-257: virsh setvcpus --config --maximum
SetMaxCPU ==
    /\ pc = "cpuMax"
    /\ LET argv == setvcpusMaxArgv(vmName, Atoi(amount).n)
       IN  \/ /\ calls' = Append(calls, Call("cpuMax", argv, TRUE, "", ""))
              /\ vmConfig' = [vmConfig EXCEPT !.vcpuMax = argv[5]]
              /\ pc' = "cpuCurrent"
              /\ UNCHANGED err
           \/ \E e \in ToolErrs, o \in ToolOutputs :
              /\ calls' = Append(calls, Call("cpuMax", argv, FALSE, e, o))
              /\ err' = [stage |-> "cpuMax",
                         msg |-> <<"failed to set maximum CPU count: ", e>>]
              /\ pc' = "cpuReturned"
              /\ UNCHANGED vmConfig
    /\ UNCHANGED <<inputs, stdout, stderr, exitStatus>>

\* mutant: a failed current call is followed by a call that restores the maximum
SetCurrentCPU_Repair ==
    /\ pc = "cpuCurrent"
    /\ LET argv == setvcpusArgv(vmName, Atoi(amount).n)
       IN  \/ /\ calls' = Append(calls, Call("cpuCurrent", argv, TRUE, "", ""))
              /\ vmConfig' = [vmConfig EXCEPT !.vcpu = argv[5]]
              /\ UNCHANGED err
           \/ \E e \in ToolErrs, o \in ToolOutputs :
              /\ calls' = calls \o
                     << Call("cpuCurrent", argv, FALSE, e, o),
                        Call("cpuMax", setvcpusMaxArgv(vmName, 1), TRUE, "", "") >>
              /\ err' = [stage |-> "cpuCurrent",
                         msg |-> <<"failed to set current CPU count: ", e>>]
              /\ vmConfig' = [vmConfig EXCEPT !.vcpuMax = InitialConfig.vcpuMax]
    /\ pc' = "cpuReturned"
    /\ UNCHANGED <<inputs, stdout, stderr, exitStatus>>

\* changeCPUCount, lines 259-264: virsh setvcpus --config
SetCurrentCPU ==
    /\ pc = "cpuCurrent"
    /\ LET argv == setvcpusArgv(vmName, Atoi(amount).n)
       IN  \/ /\ calls' = Append(calls, Call("cpuCurrent", argv, TRUE, "", ""))
              /\ vmConfig' = [vmConfig EXCEPT !.vcpu = argv[5]]
              /\ UNCHANGED err
           \/ \E e \in ToolErrs, o \in ToolOutputs :
              /\ calls' = Append(calls, Call("cpuCurrent", argv, FALSE, e, o))
              /\ err' = [stage |-> "cpuCurrent",
                         msg |-> <<"failed to set current CPU count: ", e>>]
              /\ UNCHANGED vmConfig
    /\ pc' = "cpuReturned"
    /\ UNCHANGED <<inputs, stdout, stderr, exitStatus>>

\* lines 97-101 / 375-379
CpuReport ==
    /\ pc = "cpuReturned"
    /\ IF err # NoErr
       THEN /\ stderr' = Append(stderr, <<"Failed to change CPU count: ">> \o err.msg)
            /\ Exit(1)
            /\ UNCHANGED stdout
       ELSE /\ stdout' = Append(stdout, <<"CPU count changed to ", ToString(Atoi(amount).n),
                                          " for VM '", vmName, "'.">>)
            /\ Exit(0)
            /\ UNCHANGED stderr
    /\ UNCHANGED <<inputs, vmConfig, calls, err>>

\* lines 105-113 / 383-392
MemoryBegin ==
    /\ pc = "memoryStart"
    /\ IF dryRun
       THEN /\ stdout' = stdout \o DryRunLines(version, "memory", vmName, amount,
                                               imagePath, device, partition, size)
            /\ Exit(0)
       ELSE /\ pc' = "memoryMax"
            /\ UNCHANGED <<stdout, exitStatus>>
    /\ UNCHANGED <<inputs, vmConfig, calls, err, stderr>>

\* changeMemorySize, lines 268-272: virsh setmaxmem --config
SetMaxMemory ==
    /\ pc = "memoryMax"
    /\ LET argv == setmaxmemArgv(vmName, amount)
       IN  \/ /\ calls' = Append(calls, Call("memoryMax", argv, TRUE, "", ""))
              /\ vmConfig' = [vmConfig EXCEPT !.maxmem = argv[5]]
              /\ pc' = "memoryCurrent"
              /\ UNCHANGED err
           \/ \E e \in ToolErrs, o \in ToolOutputs :
              /\ calls' = Append(calls, Call("memoryMax", argv, FALSE, e, o))
              /\ err' = [stage |-> "memoryMax",
                         msg |-> <<"failed to set maximum memory: ", e, ", output: ", o>>]
              /\ pc' = "memoryReturned"
              /\ UNCHANGED vmConfig
    /\ UNCHANGED <<inputs, stdout, stderr, exitStatus>>

\* changeMemorySize, lines 274-280: virsh setmem --config
SetCurrentMemory ==
    /\ pc = "memoryCurrent"
    /\ LET argv == setmemArgv(vmName, amount)
       IN  \/ /\ calls' = Append(calls, Call("memoryCurrent", argv, TRUE, "", ""))
              /\ vmConfig' = [vmConfig EXCEPT !.mem = argv[5]]
              /\ UNCHANGED err
           \/ \E e \in ToolErrs, o \in ToolOutputs :
              /\ calls' = Append(calls, Call("memoryCurrent", argv, FALSE, e, o))
              /\ err' = [stage |-> "memoryCurrent",
                         msg |-> <<"failed to set current memory: ", e, ", output: ", o>>]
              /\ UNCHANGED vmConfig
    /\ pc' = "memoryReturned"
    /\ UNCHANGED <<inputs, stdout, stderr, exitStatus>>

\* lines 114-118 / 393-397
MemoryReport ==
    /\ pc = "memoryReturned"
    /\ IF err # NoErr
       THEN /\ stderr' = Append(stderr, <<"Failed to change memory size: ">> \o err.msg)
            /\ Exit(1)
            /\ UNCHANGED stdout
       ELSE /\ stdout' = Append(stdout, <<"Memory size changed to ", amount,
                                          " for VM '", vmName, "'.">>)
            /\ Exit(0)
            /\ UNCHANGED stderr
    /\ UNCHANGED <<inputs, vmConfig, calls, err>>

Next ==
    \/ UnknownFlag
    \/ Dispatch
    \/ CpuInvalidCount
    \/ CpuBegin
    \/ SetMaxCPU
    \/ SetCurrentCPU
    \/ CpuReport
    \/ MemoryBegin
    \/ SetMaxMemory
    \/ SetCurrentMemory
    \/ MemoryReport
    \/ SelectGivenImage
    \/ SelectQueryFails
    \/ SelectNoDisks
    \/ SelectFirstDisk
    \/ CheckStoppedV1
    \/ CheckStoppedV2
    \/ CheckSize
    \/ DryRun
    \/ Prompt
    \/ VerifyOwnership
    \/ Create
    \/ Migrate
    \/ RollbackMigrate
    \/ Replace
    \/ RollbackReplace
    \/ Report

Spec == Init /\ [][Next]_vars

TypeOK ==
    /\ pc \in {"start", "checkRunning", "checkSize", "checkDryRun", "create", "migrate",
               "rollbackMigrate", "replace", "rollbackReplace", "returned", "exit",
               "parse", "cpuStart", "cpuMax", "cpuCurrent", "cpuReturned",
               "memoryStart", "memoryMax", "memoryCurrent", "memoryReturned"}
    /\ command \in {"disk", "cpu", "memory"}
    /\ exitStatus \in {0, 1}
    /\ imagePath \in {""} \cup Images
    /\ \A p \in Paths : fs[p] \in STRING

-----------------------------------------------------------------------------
(* Vocabulary of the properties.                                           *)

HasCall(step) == \E i \in 1..Len(calls) : calls[i].step = step
Succeeded(step) == \E i \in 1..Len(calls) : calls[i].step = step /\ calls[i].ok
Failed(step) == \E i \in 1..Len(calls) : calls[i].step = step /\ ~calls[i].ok
Count(step) == Cardinality({i \in 1..Len(calls) : calls[i].step = step})

\* the pipeline has returned to runDiskCommand
Ended == pc \in {"returned", "exit"} /\ HasCall("create")

Artifact == NewPath(imagePath)

Belongs(vm, path) == \E i \in 1..Len(Inventory[vm]) : Inventory[vm][i] = path

\* xs occurs in msg as a subsequence (in this order)
RECURSIVE IsSubseq(_, _)
IsSubseq(xs, msg) ==
    IF xs = <<>> THEN TRUE
    ELSE IF msg = <<>> THEN FALSE
    ELSE IF Head(xs) = Head(msg) THEN IsSubseq(Tail(xs), Tail(msg))
    ELSE IsSubseq(xs, Tail(msg))

\* what an error text says about the new image
SaysRemoved(msg) == Contains(msg, ". New image was removed.")
SaysRemovalFailed(msg) == Contains(msg, ". Additionally, failed to remove new image: ")
SaysNotCreated(msg) == msg # <<>> /\ msg[1] = "failed to create new image: "

ExitedWith(line) == pc = "exit" /\ exitStatus = 1 /\ stderr # <<>> /\ stderr[Len(stderr)] = line

-----------------------------------------------------------------------------
(* C1: a VM that the running-VM query reports as running makes the disk    *)
(* operation end with the "VM is running" error, and no create, migrate,   *)
(* replace or delete command is executed.                                  *)
ReportedRunning == Succeeded("listRunning") /\ vmName \in running

C1_RunningVMRefused ==
    ReportedRunning =>
        /\ ExitedWith(RunningMsg)
        /\ \A i \in 1..Len(calls) : calls[i].step \notin PipelineSteps

C1_Witness ==
    /\ ReportedRunning
    /\ version = 1
    /\ Cardinality(running) = 2
    /\ size # ""
    /\ ~dryRun
    /\ pc = "exit"

(* C2: the original image is neither removed nor overwritten before the    *)
(* create and the migrate command of the same run have both succeeded; mv  *)
(* is never executed after a failed create or a failed migrate, and every  *)
(* image stays a viable one.                                               *)
C2_OriginalKeptUntilMigrated ==
    /\ \A i \in 1..Len(calls) :
         calls[i].step = "replace" =>
            /\ \E j, k \in 1..(i - 1) :
                 /\ j < k
                 /\ calls[j].step = "create" /\ calls[j].ok
                 /\ calls[k].step = "migrate" /\ calls[k].ok
            /\ \A j \in 1..(i - 1) :
                 calls[j].step \in {"create", "migrate"} => calls[j].ok
    /\ \A p \in Images :
         /\ fs[p] \in {Original(p), Resized(Original(p))}
         /\ fs[p] # Original(p) =>
               p = imagePath /\ Succeeded("create") /\ Succeeded("migrate")

C2_Witness ==
    /\ pc = "exit"
    /\ Succeeded("replace")
    /\ fs[imagePath] # Original(imagePath)

(* C3 as stated: whenever the migrate step failed, the new image is gone   *)
(* at the end of the call and the error says it was removed.               *)
C3_AsStated ==
    (Ended /\ Failed("migrate")) =>
        /\ fs[Artifact] = Absent
        /\ SaysRemoved(err.msg)

(* C3, amended: when the migrate step failed and the rm that follows it    *)
(* succeeded, the new image is gone at the end of the call and the error   *)
(* says it was removed; when that rm failed, the error says the removal    *)
(* failed and does not say the image was removed.                          *)
C3_RemovedWhenRmSucceeds ==
    (Ended /\ Failed("migrate")) =>
        /\ HasCall("delete")
        /\ Succeeded("delete") =>
              /\ fs[Artifact] = Absent
              /\ SaysRemoved(err.msg)
              /\ ~SaysRemovalFailed(err.msg)
        /\ Failed("delete") =>
              /\ SaysRemovalFailed(err.msg)
              /\ ~SaysRemoved(err.msg)

C3_Witness ==
    /\ pc = "exit"
    /\ Failed("migrate")
    /\ Succeeded("delete")
    /\ fs[Artifact] = Absent

(* C4: when the migrate step and the rm after it both failed, the returned *)
(* error holds the migrate error and output and then the rm error and      *)
(* output, and says the removal failed.                                    *)
C4_BothDiagnostics ==
    (Ended /\ Failed("migrate") /\ Failed("delete")) =>
        LET m == LastCall("migrate")
            d == LastCall("delete")
        IN  /\ err.stage = "resize"
            /\ IsSubseq(<<m.err, m.out, d.err, d.out>>, err.msg)
            /\ SaysRemovalFailed(err.msg)
            /\ pc = "exit" => IsSubseq(<<m.err, m.out, d.err, d.out>>, stderr[Len(stderr)])

C4_Witness ==
    /\ pc = "exit"
    /\ Failed("migrate")
    /\ Failed("delete")
    /\ LastCall("migrate").err # LastCall("delete").err
    /\ LastCall("migrate").out # LastCall("delete").out

(* C5: when mv failed, an rm of the new image follows it, and the returned *)
(* replace error holds the mv error, then either the rm error and output   *)
(* (rm failed) or the statement that the new image was removed.            *)
C5_ReplaceFailure ==
    (Ended /\ Failed("replace")) =>
        LET r == LastCall("replace")
        IN  /\ \E i, j \in 1..Len(calls) :
                 /\ i < j
                 /\ calls[i].step = "replace"
                 /\ calls[j].step = "delete"
                 /\ calls[j].argv[Len(calls[j].argv)] = Artifact
            /\ err.stage = "replace"
            /\ Failed("delete") =>
                  /\ IsSubseq(<<r.err, LastCall("delete").err, LastCall("delete").out>>, err.msg)
                  /\ SaysRemovalFailed(err.msg)
                  /\ ~SaysRemoved(err.msg)
            /\ Succeeded("delete") =>
                  /\ IsSubseq(<<r.err>>, err.msg)
                  /\ SaysRemoved(err.msg)
                  /\ ~SaysRemovalFailed(err.msg)

C5_Witness ==
    /\ pc = "exit"
    /\ Failed("replace")
    /\ Failed("delete")
    /\ LastCall("replace").err # LastCall("delete").err

(* C6: a failed create ends the pipeline: no migrate, replace or delete    *)
(* command follows, no new image exists, and the create error holds the    *)
(* tool's error and output.                                                *)
C6_CreateFailureTerminal ==
    Failed("create") =>
        LET c == LastCall("create")
        IN  /\ pc \in {"returned", "exit"}
            /\ \A i \in 1..Len(calls) : calls[i].step \notin {"migrate", "replace", "delete"}
            /\ Count("create") = 1
            /\ fs[Artifact] = Absent
            /\ err.stage = "create"
            /\ IsSubseq(<<c.err, c.out>>, err.msg)
            /\ pc = "exit" => exitStatus = 1 /\ IsSubseq(<<c.out>>, stderr[Len(stderr)])

C6_Witness ==
    /\ pc = "exit"
    /\ Failed("create")
    /\ exitStatus = 1

(* C7: a run in which create, migrate and replace all succeeded ends with  *)
(* no file at <imagePath>.new and with the image virt-resize produced from *)
(* the original at the original path.                                      *)
C7_SuccessfulRun ==
    (Ended /\ Succeeded("create") /\ Succeeded("migrate") /\ Succeeded("replace")) =>
        /\ size # ""
        /\ fs[Artifact] = Absent
        /\ fs[imagePath] = Resized(Original(imagePath))
        /\ err = NoErr
        /\ pc = "exit" => exitStatus = 0

C7_Witness ==
    /\ pc = "exit"
    /\ exitStatus = 0
    /\ Succeeded("replace")
    /\ vmName \notin running
    /\ Belongs(vmName, imagePath)
    /\ fs[imagePath] = Resized(Original(imagePath))

(* C8: the pipeline returns either nil after a full success, or an error   *)
(* that says what became of the new image (removed, removal failed, or not *)
(* created); a new image is left at <imagePath>.new on a failure only if   *)
(* the error says its removal failed.                                      *)
C8_FateStated ==
    Ended =>
        \/ /\ err = NoErr
           /\ Succeeded("replace")
           /\ fs[Artifact] = Absent
        \/ /\ err # NoErr
           /\ ~Succeeded("replace")
           /\ fs[imagePath] = Original(imagePath)
           /\ Cardinality({k \in {"removed", "failed", "notcreated"} :
                              \/ k = "removed" /\ SaysRemoved(err.msg)
                              \/ k = "failed" /\ SaysRemovalFailed(err.msg)
                              \/ k = "notcreated" /\ SaysNotCreated(err.msg)}) = 1
           /\ fs[Artifact] # Absent => SaysRemovalFailed(err.msg)

C8_Witness ==
    /\ pc = "exit"
    /\ Ended
    /\ err # NoErr
    /\ fs[Artifact] # Absent
    /\ SaysRemovalFailed(err.msg)

(* C9: in a non-dry-run disk invocation no create, migrate or replace      *)
(* command is executed unless the line read at the prompt was y or yes     *)
(* (any case, surrounding white space ignored); any other line ends the    *)
(* invocation as a cancellation with status 0 and nothing executed.        *)
C9_ConfirmationGate ==
    /\ (\E i \in 1..Len(calls) : calls[i].step \in {"create", "migrate", "replace"})
          => Affirmative(response)
    /\ (pc = "exit" /\ ~dryRun /\ size # "" /\ exitStatus = 0 /\ ~HasCall("create"))
          => /\ ~Affirmative(response)
             /\ stdout[Len(stdout)] = <<"Operation cancelled.">>
             /\ fs = [p \in Paths |-> IF p \in Images THEN Original(p) ELSE Absent]

(* C10: in a non-dry-run disk invocation the selected image belongs to the *)
(* named VM, and this was checked, before any pipeline command runs; an    *)
(* image of another VM ends the invocation with the ownership error.       *)
C10_OwnershipGate ==
    /\ \A i \in 1..Len(calls) :
         calls[i].step \in {"create", "migrate", "replace"} =>
            /\ Belongs(vmName, imagePath)
    /\ (pc = "exit" /\ ~dryRun /\ size # "" /\ imagePath # ""
           /\ Succeeded("listRunning") /\ vmName \notin running
           /\ ~Belongs(vmName, imagePath) /\ Succeeded("verifyOwnership"))
          => ExitedWith(<<"The specified disk does not belong to VM '", vmName, "'">>)

-----------------------------------------------------------------------------
(* Vocabulary of the dry-run and mutator properties.                       *)

InitialFiles == [p \in Paths |-> IF p \in Images THEN Original(p) ELSE Absent]

\* the commands that change the VM or its disk
MutatingSteps ==
    {"create", "migrate", "replace", "delete", "cpuMax", "cpuCurrent", "memoryMax",
     "memoryCurrent"}

IsMutating(c) == c.step \in MutatingSteps
IsNotice(l) == l[1] = "Selected disk: "
IsPreview(l) == ~IsNotice(l)

\* what a dry run printed, apart from the "Selected disk" notice, as text
PreviewText ==
    LET ls == SelectSeq(stdout, IsPreview)
    IN  [i \in 1..Len(ls) |-> Flatten(ls[i])]

\* a command as the dry run is to show it
CommandLine(argv) == "Command: " \o Join(argv, " ")

\* the mutating commands executed, as command lines
ExecutedText ==
    LET cs == SelectSeq(calls, IsMutating)
    IN  [i \in 1..Len(cs) |-> CommandLine(cs[i].argv)]

\* a call that sets the maximum / the current value, told by its arguments
IsMaximumCall(c) ==
    \/ Contains(c.argv, "setvcpus") /\ Contains(c.argv, "--maximum")
    \/ Contains(c.argv, "setmaxmem")
IsCurrentCall(c) ==
    \/ Contains(c.argv, "setvcpus") /\ ~Contains(c.argv, "--maximum")
    \/ Contains(c.argv, "setmem")

(* C11: a disk invocation without --size reports the missing size at once  *)
(* and runs no external command at all.                                    *)
C11_EmptySizeRunsNothing ==
    (command = "disk" /\ size = "") =>
        /\ calls = <<>>
        /\ pc = "exit" =>
              ExitedWith(<<"Please specify the new size using the --size option">>)

(* C12: a disk dry run prints exactly the create, migrate and replace      *)
(* command lines, each with <imagePath>.new as the intermediate path, and  *)
(* runs no external command: no query, no change of the file system.       *)
C12_DryRunRunsNothing ==
    (command = "disk" /\ dryRun /\ size # "" /\ pc \notin {"start", "checkRunning"}) =>
        /\ calls = <<>>
        /\ fs = InitialFiles
        /\ (pc = "exit" /\ exitStatus = 0) =>
              PreviewText =
                 << CommandLine(<<"sudo", "qemu-img", "create", "-f", "qcow2", "-o",
                                  "preallocation=metadata", NewPath(imagePath), size>>),
                    CommandLine(<<"sudo", "virt-resize", "--expand",
                                  "/dev/" \o device \o ToString(partition), imagePath,
                                  NewPath(imagePath)>>),
                    CommandLine(<<"sudo", "mv", NewPath(imagePath), imagePath>>) >>

(* C13: for cpu, memory and disk, the lines the dry-run branch prints for  *)
(* given inputs are exactly the commands, sudo prefix and arguments        *)
(* included, that the real operation executes when every command succeeds. *)
C13_DryRunMatchesExecution ==
    (pc = "exit" /\ exitStatus = 0 /\ ~dryRun /\ ExecutedText # <<>>) =>
        LET ls == DryRunLines(version, command, vmName, amount, imagePath, device,
                              partition, size)
        IN  ExecutedText = [i \in 1..Len(ls) |-> Flatten(ls[i])]

(* C14: --dry-run is accepted by cpu, memory and disk alike; with it the   *)
(* invocation prints a preview and executes no mutating command.           *)
C14_DryRunEverywhere ==
    (dryRun /\ pc = "exit") =>
        /\ ~Contains(stderr, <<"Error: unknown flag: --dry-run">>)
        /\ \A i \in 1..Len(calls) : ~IsMutating(calls[i])
        /\ exitStatus = 0 => PreviewText # <<>>

(* C15: the cpu and the memory mutator run the maximum call before the     *)
(* current call, never run the current call after a failed maximum call,   *)
(* and the error they return names the call that failed.                   *)
C15_MaximumThenCurrent ==
    /\ \A i \in 1..Len(calls) :
         IsCurrentCall(calls[i]) =>
            /\ i = 2
            /\ IsMaximumCall(calls[1])
            /\ calls[1].ok
    /\ (command \in {"cpu", "memory"} /\ calls # <<>>) => IsMaximumCall(calls[1])
    /\ (pc \in {"cpuReturned", "memoryReturned"}
          \/ (pc = "exit" /\ command \in {"cpu", "memory"} /\ calls # <<>>)) =>
         LET last == calls[Len(calls)]
         IN  /\ ~last.ok =>
                  /\ IsMaximumCall(last) =>
                        err.msg[1] \in {"failed to set maximum CPU count: ",
                                        "failed to set maximum memory: "}
                  /\ IsCurrentCall(last) =>
                        err.msg[1] \in {"failed to set current CPU count: ",
                                        "failed to set current memory: "}
                  /\ Contains(err.msg, last.err)
             /\ last.ok => err = NoErr /\ IsCurrentCall(last)

C15_Witness ==
    /\ pc = "exit"
    /\ command = "cpu"
    /\ Len(calls) = 1
    /\ ~calls[1].ok
    /\ exitStatus = 1

(* C16: an invocation ends with status 1 whenever it reported an error     *)
(* (a line on stderr, a failed command, an error returned), and with       *)
(* status 0 exactly when its last output is a success message, a dry-run   *)
(* preview or the cancellation message.                                    *)
EndedWell ==
    /\ stdout # <<>>
    /\ LET l == stdout[Len(stdout)]
       IN  \/ l[1] \in {"CPU count changed to ", "Memory size changed to ",
                        "Disk expansion completed successfully.",
                        "Disk expansion completed successfully for VM '"}
           \/ dryRun /\ LET ls == DryRunLines(version, command, vmName, amount, imagePath,
                                              device, partition, size)
                        IN  l = ls[Len(ls)]
           \/ l = <<"Operation cancelled.">>

C16_ExitStatus ==
    pc = "exit" =>
        /\ exitStatus = 1 <=> stderr # <<>>
        /\ exitStatus = 0 <=> (EndedWell /\ stderr = <<>>)
        /\ (\E i \in 1..Len(calls) : ~calls[i].ok) => exitStatus = 1
        /\ err # NoErr => exitStatus = 1
        /\ (size = "" /\ command = "disk") => exitStatus = 1

C16_Witness ==
    /\ pc = "exit"
    /\ exitStatus = 1
    /\ command = "disk"
    /\ Failed("replace")

(* C17: when the maximum call succeeded and the current call failed, no    *)
(* further command is issued, the configuration holds the new maximum and  *)
(* the old current value, and the failure is returned as an error.         *)
C17_NonTransactional ==
    (pc \in {"cpuReturned", "memoryReturned", "exit"} /\ Len(calls) >= 2
        /\ IsMaximumCall(calls[1]) /\ calls[1].ok
        /\ IsCurrentCall(calls[2]) /\ ~calls[2].ok) =>
        /\ Len(calls) = 2
        /\ err # NoErr
        /\ pc = "exit" => exitStatus = 1 /\ IsSubseq(err.msg, stderr[Len(stderr)])
        /\ command = "cpu" =>
              /\ vmConfig.vcpuMax = ToString(Atoi(amount).n)
              /\ vmConfig.vcpuMax # InitialConfig.vcpuMax
              /\ vmConfig.vcpu = InitialConfig.vcpu
        /\ command = "memory" =>
              /\ vmConfig.maxmem = amount
              /\ vmConfig.maxmem # InitialConfig.maxmem
              /\ vmConfig.mem = InitialConfig.mem

C17_Witness ==
    /\ pc = "exit"
    /\ command = "cpu"
    /\ Len(calls) = 2
    /\ calls[1].ok
    /\ ~calls[2].ok
    /\ vmConfig.vcpuMax # vmConfig.vcpu

(* C18: in one run of the pipeline create, migrate and replace are each    *)
(* executed at most once and in this order, each after the one before it   *)
(* has returned success; after the first failure none of them is run.      *)
C18_StrictOrderNoRetry ==
    LET ps == SelectSeq(calls, LAMBDA c : c.step \in {"create", "migrate", "replace"})
    IN  /\ Len(ps) <= 3
        /\ \A i \in 1..Len(ps) :
             /\ ps[i].step = <<"create", "migrate", "replace">>[i]
             /\ i < Len(ps) => ps[i].ok
        /\ (command = "disk" /\ pc \in {"migrate", "replace"}) => ps[Len(ps)].ok

C18_Witness ==
    /\ pc = "exit"
    /\ Succeeded("create")
    /\ Failed("migrate")
    /\ Count("create") = 1
    /\ Count("migrate") = 1

(* C19: when the running-VM query itself fails, the invocation reports a   *)
(* query error, not the answer "running" or "stopped", and ends before any *)
(* pipeline command.                                                       *)
C19_QueryErrorReported ==
    Failed("listRunning") =>
        /\ pc = "exit"
        /\ exitStatus = 1
        /\ stderr[Len(stderr)] # RunningMsg
        /\ \A i \in 1..Len(calls) : calls[i].step \notin PipelineSteps

(* C20: rm is run at most once per run, always on <imagePath>.new and      *)
(* never on the original image, only right after a failed migrate or a     *)
(* failed replace: never after a success and never after a failed create.  *)
C20_RmOnlyTheArtifact ==
    /\ Count("delete") <= 1
    /\ \A i \in 1..Len(calls) :
         calls[i].step = "delete" =>
            /\ calls[i].argv = <<"sudo", "rm", NewPath(imagePath)>>
            /\ imagePath \in Images
            /\ i > 1
            /\ calls[i - 1].step \in {"migrate", "replace"}
            /\ ~calls[i - 1].ok
            /\ \A j \in 1..(i - 1) : calls[j].step = "create" => calls[j].ok
    /\ (Ended /\ err = NoErr) => ~HasCall("delete")
    /\ \A p \in Images : fs[p] # Absent

C20_Witness ==
    /\ pc = "exit"
    /\ Failed("replace")
    /\ Succeeded("delete")
    /\ fs[imagePath] = Original(imagePath)

====
